---- MODULE Spec2Model ----
(***************************************************************************)
(* protoc-gen-connect-vue: the transformation of a schema descriptor tree  *)
(* into the view model (src/src/generator.ts).                             *)
(*                                                                         *)
(* Method names and field names are sequences of one-character strings,    *)
(* so that startsWith, replace, charAt, slice and toLowerCase are computed *)
(* character by character.  Type names, file-path segments and output-file *)
(* names are only compared for equality and are plain strings.             *)
(* A JavaScript Set / Map is a duplicate-free sequence in insertion order. *)
(***************************************************************************)
EXTENDS Integers, Sequences, FiniteSets, TLC

VARIABLES
    files,            \* schema.files: the input descriptor tree
    msgFields,        \* typeName -> message.fields of the input descriptors
    pc,               \* position of the invocation
    service,          \* <<firstService>> once selected, <<>> before / if none
    mi,               \* index of the method under processing in service.methods
    inType,           \* inputBaseName of the method under processing
    outType,          \* outputBaseName of the method under processing
    wktImports,       \* Set<string>
    localImports,     \* Set<string>
    externalImports,  \* Map<string, Set<string>>
    rpcs,             \* the rpcs array of processService
    visited,          \* the visited set of the running isPaginatedDeep call tree
    stack,            \* active isPaginatedDeep frames [message, idx], top last
    pcall,            \* <<typeName>> when a call of isPaginatedDeep is being entered
    ret,              \* <<b>> when a call of isPaginatedDeep has just returned b
    pagReturns,       \* value of isPaginatedDeep(method.input) per pushed record
    viewData,         \* <<the value returned by processService>>, <<>> before
    ri,               \* index of the output file being rendered
    generated,        \* names passed to schema.generateFile so far
    emitted           \* output units handed back by the plugin run

vars == <<files, msgFields, pc, service, mi, inType, outType, wktImports,
          localImports, externalImports, rpcs, visited, stack, pcall, ret,
          pagReturns, viewData, ri, generated, emitted>>

-----------------------------------------------------------------------------
(* Bounds of the explored inputs *)

NMsg == 2          \* messages whose fields range over every shape
MaxFields == 3     \* fields of these messages, in total
MaxMethods == 2    \* methods of the service whose methods vary
MaxFiles == 2      \* input files
MaxServices == 2   \* services declared in one file
MaxStack == 8      \* call depth at which the runtime raises a stack fault

-----------------------------------------------------------------------------
(* Character strings *)

Range(s) == {s[i] : i \in 1..Len(s)}

Upper == <<"A","B","C","D","E","F","G","H","I","J","K","L","M",
           "N","O","P","Q","R","S","T","U","V","W","X","Y","Z">>
Lower == <<"a","b","c","d","e","f","g","h","i","j","k","l","m",
           "n","o","p","q","r","s","t","u","v","w","x","y","z">>

LowerChar(c) ==
    IF \E k \in 1..Len(Upper) : Upper[k] = c
    THEN Lower[CHOOSE k \in 1..Len(Upper) : Upper[k] = c]
    ELSE c

ToLowerCase(s) == [i \in 1..Len(s) |-> LowerChar(s[i])]

StartsWith(s, p) == Len(p) <= Len(s) /\ SubSeq(s, 1, Len(p)) = p

\* position of the first occurrence of p in s, 0 when there is none
IndexOf(s, p) ==
    LET hits == {i \in 1..(Len(s) - Len(p) + 1) : SubSeq(s, i, i + Len(p) - 1) = p}
    IN IF hits = {} THEN 0 ELSE CHOOSE i \in hits : \A j \in hits : i <= j

\* every non-overlapping occurrence of p removed from s, left to right
RECURSIVE ReplaceAllOccurrences(_, _)
ReplaceAllOccurrences(s, p) ==
    IF IndexOf(s, p) = 0 THEN s
    ELSE SubSeq(s, 1, IndexOf(s, p) - 1)
         \o ReplaceAllOccurrences(SubSeq(s, IndexOf(s, p) + Len(p), Len(s)), p)

\* String.prototype.replace(p, "") with a string pattern: the first occurrence only
ReplaceFirst(s, p) ==
    IF IndexOf(s, p) = 0 THEN s
    ELSE SubSeq(s, 1, IndexOf(s, p) - 1) \o SubSeq(s, IndexOf(s, p) + Len(p), Len(s))

\* Set.prototype.add on an insertion-ordered set
AddAlways(set, x) == Append(set, x)

SetAdd(set, x) == IF x \in Range(set) THEN set ELSE Append(set, x)

NoDup(s) == \A i, j \in 1..Len(s) : s[i] = s[j] => i = j

SeqsUpTo(S, n) == UNION {[1..k -> S] : k \in 0..n}

-----------------------------------------------------------------------------
(* Program constants *)

METHOD_KIND_UNARY == 1

KnownTypeNamesWithoutEmpty == {"google.protobuf.Timestamp", "google.protobuf.Duration"}

\* the keys of KNOWN_TYPES
KNOWN_TYPE_NAMES == {"google.protobuf.Empty", "google.protobuf.Timestamp",
                     "google.protobuf.Duration"}

KNOWN_TYPES(t) ==
    CASE t = "google.protobuf.Empty" -> "Empty"
      [] t = "google.protobuf.Timestamp" -> "Timestamp"
      [] t = "google.protobuf.Duration" -> "Duration"

pagingKeys == << <<"p","a","g","e">>,
                 <<"o","f","f","s","e","t">>,
                 <<"c","u","r","s","o","r">>,
                 <<"l","i","m","i","t">>,
                 <<"p","a","g","e","s","i","z","e">>,
                 <<"p","a","g","e","n","u","m","b","e","r">> >>

mutationVerbs == << <<"C","r","e","a","t","e">>,
                    <<"U","p","d","a","t","e">>,
                    <<"D","e","l","e","t","e">>,
                    <<"R","e","m","o","v","e">>,
                    <<"P","a","t","c","h">>,
                    <<"P","o","s","t">>,
                    <<"S","e","t">>,
                    <<"A","d","d">> >>

ListAll == <<"L","i","s","t","A","l","l">>

HookPrefix == <<"u","s","e">>

OutputFilesWithoutIndex == <<"client.ts", "api.ts">>

OutputFiles == <<"client.ts", "api.ts", "index.ts">>

-----------------------------------------------------------------------------
(* Type resolution *)

\* path.relative(from, to) on normalised directory paths
CommonPrefix(a, b) ==
    LET agree == {k \in 0..Len(a) : k <= Len(b) /\ SubSeq(a, 1, k) = SubSeq(b, 1, k)}
    IN CHOOSE k \in agree : \A j \in agree : j <= k

Relative(from, to) ==
    [k \in 1..(Len(from) - CommonPrefix(from, to)) |-> ".."]
        \o SubSeq(to, CommonPrefix(from, to) + 1, Len(to))

\* path.basename(name, ext): the extension is dropped only when it is ext
Basename(f, ext) == [base |-> f.base, ext |-> IF f.ext = ext THEN "" ELSE f.ext]

\* `./gen/${relative}/${basename}_pb`
ImportPath(serviceFile, typeFile) ==
    [root |-> <<".", "gen">>,
     rel |-> Relative(serviceFile.dir, typeFile.dir),
     stem |-> Basename(typeFile, ".proto"),
     suffix |-> "_pb"]

MapHas(m, k) == \E i \in 1..Len(m) : m[i].path = k

MapSet(m, k, v) ==
    IF MapHas(m, k)
    THEN [i \in 1..Len(m) |-> IF m[i].path = k THEN [path |-> k, types |-> v] ELSE m[i]]
    ELSE Append(m, [path |-> k, types |-> v])

MapGet(m, k) == m[CHOOSE i \in 1..Len(m) : m[i].path = k].types

\* processType: the returned name and the three buckets after the call
processType(typeDesc, serviceFile, wkt, loc, ext) ==
    IF typeDesc.typeName \in KNOWN_TYPE_NAMES
    THEN [name |-> KNOWN_TYPES(typeDesc.typeName),
          wkt |-> SetAdd(wkt, KNOWN_TYPES(typeDesc.typeName)), loc |-> loc, ext |-> ext]
    ELSE IF typeDesc.file = serviceFile
    THEN [name |-> typeDesc.name,
          wkt |-> wkt, loc |-> SetAdd(loc, typeDesc.name), ext |-> ext]
    ELSE LET importPath == ImportPath(serviceFile, typeDesc.file)
             ext1 == IF ~MapHas(ext, importPath) THEN MapSet(ext, importPath, <<>>) ELSE ext
         IN [name |-> typeDesc.name,
             wkt |-> wkt, loc |-> loc,
             ext |-> MapSet(ext1, importPath, SetAdd(MapGet(ext1, importPath), typeDesc.name))]

-----------------------------------------------------------------------------
(* Method classification *)

LowerAll(name) == ToLowerCase(name)

\* method.name.charAt(0).toLowerCase() + method.name.slice(1)
camelName(name) ==
    IF name = <<>> THEN <<>> ELSE <<LowerChar(name[1])>> \o SubSeq(name, 2, Len(name))

\* the forEach over mutationVerbs, from verb i on: a later match overwrites
RECURSIVE ForEachVerb(_, _, _)
ForEachVerb(name, resource, i) ==
    IF i > Len(mutationVerbs) THEN resource
    ELSE ForEachVerb(name,
                     IF StartsWith(name, mutationVerbs[i])
                     THEN ReplaceFirst(name, mutationVerbs[i])
                     ELSE resource,
                     i + 1)

deriveResource(name) ==
    LET resource == ForEachVerb(name, name, 1)
    IN IF StartsWith(name, ListAll) THEN ReplaceFirst(name, ListAll) ELSE resource

isMutation(name) == \E i \in 1..Len(mutationVerbs) : StartsWith(name, mutationVerbs[i])

isUnary(method) == method.methodKind = METHOD_KIND_UNARY

IsPaginatedIgnoringKind(method, deep) == deep /\ ~isMutation(method.name)

IsPaginatedField(method, deep) == deep /\ isUnary(method) /\ ~isMutation(method.name)

Rpc(method, inputBaseName, outputBaseName, deep) ==
    [functionName |-> camelName(method.name),
     hookName |-> HookPrefix \o method.name,
     queryDefinitionName |-> camelName(method.name),
     resource |-> deriveResource(method.name),
     inputType |-> inputBaseName,
     outputType |-> outputBaseName,
     isQuery |-> isUnary(method) /\ ~isMutation(method.name),
     isPaginated |-> IsPaginatedField(method, deep)]

\* field.name.toLowerCase() is one of pagingKeys
IsPagingKey(name) == \E i \in 1..Len(pagingKeys) : pagingKeys[i] = ToLowerCase(name)

\* the default value of the parameter visited, given the set of the previous call
KeepVisited(previous) == previous

NewVisited(previous) == {}

\* visited.add(message.typeName)
NoVisit(v, t) == v

Visit(v, t) == v \cup {t}

Pop(stk) == SubSeq(stk, 1, Len(stk) - 1)
Advance(stk) == [stk EXCEPT ![Len(stk)].idx = @ + 1]

\* if (isPaginatedDeep(field.message, visited)) return true; otherwise the loop goes on
ReturnNested(b, stk) == [stack |-> Pop(stk), ret |-> <<b>>]

AfterNested(b, stk) ==
    IF b THEN [stack |-> Pop(stk), ret |-> <<TRUE>>]
    ELSE [stack |-> Advance(stk), ret |-> <<>>]

\* firstService.file.name.replace(".proto", "")
protoFileStem(f) == [dir |-> f.dir, base |-> f.base, ext |-> IF f.ext = ".proto" THEN "" ELSE f.ext]

\* the value returned by processService; Array.from keeps the insertion order
ViewData(svc, records, wkt, loc, ext) ==
    [serviceName |-> svc.name,
     protoPbFile |-> <<protoFileStem(svc.file), "_pb">>,
     connectQueryFile |-> <<protoFileStem(svc.file), "-", svc.name, "_connectquery">>,
     rpcs |-> records,
     wktImports |-> wkt,
     localImports |-> loc,
     externalImports |-> [k \in 1..Len(ext) |-> [path |-> ext[k].path, types |-> ext[k].types]]]

\* schema.files.flatMap((f) => f.services)
RECURSIVE FlatMapServices(_)
FlatMapServices(fs) ==
    IF fs = <<>> THEN <<>> ELSE Head(fs).services \o FlatMapServices(Tail(fs))

LastService(fs) ==
    IF FlatMapServices(fs) = <<>> THEN <<>>
    ELSE <<FlatMapServices(fs)[Len(FlatMapServices(fs))]>>

FirstService(fs) ==
    IF FlatMapServices(fs) = <<>> THEN <<>> ELSE <<FlatMapServices(fs)[1]>>

-----------------------------------------------------------------------------
(* Input descriptors *)

\* DescFile.name as directory segments, base name and extension
FileA == [dir |-> <<"app", "v1">>, base |-> "tickets", ext |-> ""]
FileB == [dir |-> <<>>, base |-> "admin", ext |-> ""]
FileC == [dir |-> <<"common">>, base |-> "types", ext |-> ""]
FileWkt == [dir |-> <<"google", "protobuf">>, base |-> "empty", ext |-> ""]

InputFiles == {FileA, FileB, FileC}

\* DescMessage: typeName, name, file (the fields are in msgFields)
MessageDescs == <<
    [typeName |-> "app.v1.ListReq", name |-> "ListReq", file |-> FileA],
    [typeName |-> "app.v1.Filter", name |-> "Filter", file |-> FileA],
    [typeName |-> "common.Ticket", name |-> "Ticket", file |-> FileC],
    [typeName |-> "common.Label", name |-> "Label", file |-> FileC],
    [typeName |-> "app.v1.Empty", name |-> "Empty", file |-> FileA],
    [typeName |-> "google.protobuf.Empty", name |-> "Empty", file |-> FileWkt] >>

TypeNames == {MessageDescs[i].typeName : i \in 1..Len(MessageDescs)}

Desc(t) == MessageDescs[CHOOSE i \in 1..Len(MessageDescs) : MessageDescs[i].typeName = t]

\* the messages whose fields take every shape
GraphMsgs == {MessageDescs[i].typeName : i \in 1..NMsg}

N_id == <<"i","d">>
N_pages == <<"p","a","g","e","s">>
N_Page == <<"P","a","g","e">>
N_filter == <<"f","i","l","t","e","r">>
N_parent == <<"p","a","r","e","n","t">>
N_label == <<"l","a","b","e","l">>
N_Cursor == <<"C","u","r","s","o","r">>

ScalarField(n) == [name |-> n, fieldKind |-> "scalar", message |-> ""]
MessageField(n, t) == [name |-> n, fieldKind |-> "message", message |-> t]

FieldShapes ==
    {ScalarField(N_pages), ScalarField(N_Page)}
        \cup {MessageField(N_filter, t) : t \in GraphMsgs}

\* a fixed schema: ListReq -> Filter -> ListReq is a cycle and Filter has Page;
\* Ticket -> Label -> Ticket is a cycle through a message-typed field Cursor
CatalogFields ==
    [t \in TypeNames |->
        CASE t = "app.v1.ListReq" -> <<MessageField(N_filter, "app.v1.Filter"), ScalarField(N_id)>>
          [] t = "app.v1.Filter" -> <<MessageField(N_parent, "app.v1.ListReq"), ScalarField(N_Page)>>
          [] t = "common.Ticket" -> <<ScalarField(N_id), MessageField(N_label, "common.Label")>>
          [] t = "common.Label" -> <<ScalarField(N_pages), MessageField(N_Cursor, "common.Ticket")>>
          [] OTHER -> <<>>]

M_GetTicket == <<"G","e","t","T","i","c","k","e","t">>
M_ListTickets == <<"L","i","s","t","T","i","c","k","e","t","s">>
M_ListAllTickets == <<"L","i","s","t","A","l","l","T","i","c","k","e","t","s">>
M_CreateTicket == <<"C","r","e","a","t","e","T","i","c","k","e","t">>
M_AddAddress == <<"A","d","d","A","d","d","r","e","s","s">>
M_setOwner == <<"s","e","t","O","w","n","e","r">>
M_RemoveLabel == <<"R","e","m","o","v","e","L","a","b","e","l">>
M_WatchTickets == <<"W","a","t","c","h","T","i","c","k","e","t","s">>

MethodNames == {M_GetTicket, M_ListAllTickets, M_CreateTicket, M_AddAddress, M_setOwner}

MethodKinds == {1, 2}

\* (input, output) of a method
MethodTypes == { <<"app.v1.ListReq", "common.Ticket">>,
                 <<"google.protobuf.Empty", "app.v1.Empty">> }

Method(n, k, i, o) == [name |-> n, methodKind |-> k, input |-> i, output |-> o]

Methods == {Method(n, k, io[1], io[2]) : n \in MethodNames, k \in MethodKinds, io \in MethodTypes}

Service(n, f, ms) == [name |-> n, file |-> f, methods |-> ms]

ServiceNames == {"TicketService", "AdminService"}

FixedMethods(n) ==
    IF n = "TicketService"
    THEN <<Method(M_GetTicket, 1, "app.v1.ListReq", "common.Ticket"),
           Method(M_CreateTicket, 1, "common.Ticket", "google.protobuf.Empty")>>
    ELSE <<Method(M_RemoveLabel, 1, "common.Label", "app.v1.Empty"),
           Method(M_WatchTickets, 2, "app.v1.Filter", "google.protobuf.Empty")>>

File(f, ss) == [name |-> f, services |-> ss]

RECURSIVE SumTo(_, _)
SumTo(lens, n) == IF n = 0 THEN 0 ELSE lens[n] + SumTo(lens, n - 1)

\* one service whose only method takes a message of arbitrary shape: message i
\* has lens[i] fields, taken in turn from the flat list fs
InitGraphs ==
    /\ \E lens \in [1..NMsg -> 0..MaxFields] :
          /\ SumTo(lens, NMsg) <= MaxFields
          /\ \E fs \in [1..SumTo(lens, NMsg) -> FieldShapes] :
                msgFields =
                    [t \in TypeNames |->
                        IF t \in GraphMsgs
                        THEN LET i == CHOOSE k \in 1..NMsg : MessageDescs[k].typeName = t
                             IN SubSeq(fs, SumTo(lens, i - 1) + 1, SumTo(lens, i))
                        ELSE <<>>]
    /\ \E t \in GraphMsgs :
          files = <<File(FileA, <<Service("TicketService", FileA,
                       <<Method(M_ListTickets, 1, t, "google.protobuf.Empty")>>)>>)>>

\* one service with arbitrary methods over the fixed schema
InitMethods ==
    /\ msgFields = CatalogFields
    /\ \E ms \in SeqsUpTo(Methods, MaxMethods) :
          files = <<File(FileA, <<Service("TicketService", FileA, ms)>>)>>

\* arbitrary files and services over the fixed schema
InitFiles ==
    /\ msgFields = CatalogFields
    /\ \E fs \in SeqsUpTo(InputFiles, MaxFiles) :
       \E ss \in [1..Len(fs) -> SeqsUpTo(ServiceNames, MaxServices)] :
          /\ NoDup(fs)
          /\ \A i \in 1..Len(fs) : NoDup(ss[i])
          /\ files = [i \in 1..Len(fs) |->
                        File(fs[i], [k \in 1..Len(ss[i]) |->
                                       Service(ss[i][k], fs[i], FixedMethods(ss[i][k]))])]

Init ==
    /\ InitGraphs \/ InitMethods \/ InitFiles
    /\ pc = "start"
    /\ service = <<>>
    /\ mi = 0
    /\ inType = ""
    /\ outType = ""
    /\ wktImports = <<>>
    /\ localImports = <<>>
    /\ externalImports = <<>>
    /\ rpcs = <<>>
    /\ visited = {}
    /\ stack = <<>>
    /\ pcall = <<>>
    /\ ret = <<>>
    /\ pagReturns = <<>>
    /\ viewData = <<>>
    /\ ri = 0
    /\ generated = <<>>
    /\ emitted = <<>>

-----------------------------------------------------------------------------
(* The invocation *)

TheService == service[1]
TheMethod == TheService.methods[mi]

\* generateTs up to the loop of processService: pick the first service
GenerateTs ==
    /\ pc = "start"
    /\ service' = FirstService(files)
    /\ IF service' = <<>>
       THEN pc' = "done" /\ mi' = mi /\ ri' = ri /\ viewData' = viewData
       ELSE IF service'[1].methods = <<>>
       THEN /\ pc' = "render" /\ mi' = mi /\ ri' = 1
            /\ viewData' = <<ViewData(service'[1], rpcs, wktImports, localImports,
                                      externalImports)>>
       ELSE pc' = "resolveInput" /\ mi' = 1 /\ ri' = ri /\ viewData' = viewData
    /\ UNCHANGED <<files, msgFields, inType, outType, wktImports, localImports,
                   externalImports, rpcs, visited, stack, pcall, ret, pagReturns,
                   generated, emitted>>

\* processType(method.input, service.file, ...)
ResolveInput ==
    /\ pc = "resolveInput"
    /\ LET r == processType(Desc(TheMethod.input), TheService.file,
                            wktImports, localImports, externalImports)
       IN /\ inType' = r.name
          /\ wktImports' = r.wkt
          /\ localImports' = r.loc
          /\ externalImports' = r.ext
    /\ pc' = "resolveOutput"
    /\ UNCHANGED <<files, msgFields, service, mi, outType, rpcs, visited, stack,
                   pcall, ret, pagReturns, ri, generated, emitted, viewData>>

\* processType(method.output, service.file, ...), then the evaluation of the
\* record literal reaches the call isPaginatedDeep(method.input)
ResolveOutput ==
    /\ pc = "resolveOutput"
    /\ LET r == processType(Desc(TheMethod.output), TheService.file,
                            wktImports, localImports, externalImports)
       IN /\ outType' = r.name
          /\ wktImports' = r.wkt
          /\ localImports' = r.loc
          /\ externalImports' = r.ext
    /\ pc' = "classify"
    /\ pcall' = <<TheMethod.input>>
    /\ visited' = NewVisited(visited)
    /\ ret' = <<>>
    /\ UNCHANGED <<files, msgFields, service, mi, inType, rpcs, stack,
                   pagReturns, ri, generated, emitted, viewData>>

\* entry of isPaginatedDeep(message, visited): the cycle guard; a call deeper
\* than the runtime's stack is a fault that aborts the invocation
PagCall ==
    /\ pc = "classify"
    /\ pcall # <<>>
    /\ IF Len(stack) >= MaxStack
       THEN /\ pc' = "stackFault"
            /\ UNCHANGED <<visited, stack, ret>>
       ELSE IF pcall[1] \in visited
       THEN /\ ret' = <<FALSE>>
            /\ UNCHANGED <<pc, visited, stack>>
       ELSE /\ visited' = Visit(visited, pcall[1])
            /\ stack' = Append(stack, [message |-> pcall[1], idx |-> 1])
            /\ ret' = <<>>
            /\ pc' = pc
    /\ pcall' = <<>>
    /\ UNCHANGED <<files, msgFields, service, mi, inType, outType, wktImports,
                   localImports, externalImports, rpcs, pagReturns, ri, generated,
                   emitted, viewData>>

Top == stack[Len(stack)]

\* one iteration of the loop over message.fields, or the return after the loop
PagScan ==
    /\ pc = "classify"
    /\ pcall = <<>>
    /\ ret = <<>>
    /\ stack # <<>>
    /\ LET fields == msgFields[Top.message]
       IN IF Top.idx > Len(fields)
          THEN stack' = Pop(stack) /\ ret' = <<FALSE>> /\ pcall' = pcall
          ELSE IF IsPagingKey(fields[Top.idx].name)
          THEN stack' = Pop(stack) /\ ret' = <<TRUE>> /\ pcall' = pcall
          ELSE IF fields[Top.idx].fieldKind = "message"
          THEN stack' = stack /\ ret' = ret /\ pcall' = <<fields[Top.idx].message>>
          ELSE stack' = Advance(stack) /\ ret' = ret /\ pcall' = pcall
    /\ UNCHANGED <<files, msgFields, pc, service, mi, inType, outType, wktImports,
                   localImports, externalImports, rpcs, visited, pagReturns, ri,
                   generated, emitted, viewData>>

\* a nested call has returned to the frame that made it
PagReturn ==
    /\ pc = "classify"
    /\ pcall = <<>>
    /\ ret # <<>>
    /\ stack # <<>>
    /\ stack' = AfterNested(ret[1], stack).stack
    /\ ret' = AfterNested(ret[1], stack).ret
    /\ UNCHANGED <<files, msgFields, pc, service, mi, inType, outType, wktImports,
                   localImports, externalImports, rpcs, visited, pcall, pagReturns,
                   ri, generated, emitted, viewData>>

\* the top-level call has returned: rpcs.push({...}), then the next method or,
\* after the last one, the return of processService
PushRecord ==
    /\ pc = "classify"
    /\ pcall = <<>>
    /\ ret # <<>>
    /\ stack = <<>>
    /\ rpcs' = Append(rpcs, Rpc(TheMethod, inType, outType, ret[1]))
    /\ pagReturns' = Append(pagReturns, ret[1])
    /\ ret' = <<>>
    /\ IF mi < Len(TheService.methods)
       THEN pc' = "resolveInput" /\ mi' = mi + 1 /\ ri' = ri /\ viewData' = viewData
       ELSE /\ pc' = "render" /\ mi' = mi /\ ri' = 1
            /\ viewData' = <<ViewData(TheService, rpcs', wktImports, localImports,
                                      externalImports)>>
    /\ UNCHANGED <<files, msgFields, service, inType, outType, wktImports,
                   localImports, externalImports, visited, stack, pcall,
                   generated, emitted>>

\* schema.generateFile(name).print(Mustache.render(...)) with a render that
\* returns; after the last one generateTs returns and the run hands back the files
RenderFile ==
    /\ pc = "render"
    /\ generated' = Append(generated, OutputFiles[ri])
    /\ IF ri < Len(OutputFiles)
       THEN pc' = pc /\ ri' = ri + 1 /\ emitted' = emitted
       ELSE pc' = "done" /\ ri' = ri /\ emitted' = generated'
    /\ UNCHANGED <<files, msgFields, service, mi, inType, outType, wktImports,
                   localImports, externalImports, rpcs, visited, stack, pcall, ret,
                   pagReturns, viewData>>

\* schema.generateFile(name) is evaluated, then Mustache.render throws: the
\* exception leaves generateTs and the run fails without handing back a file
RenderThrows ==
    /\ pc = "render"
    /\ generated' = Append(generated, OutputFiles[ri])
    /\ pc' = "failed"
    /\ emitted' = <<>>
    /\ UNCHANGED <<files, msgFields, service, mi, inType, outType, wktImports,
                   localImports, externalImports, rpcs, visited, stack, pcall, ret,
                   pagReturns, ri, viewData>>

Next ==
    \/ GenerateTs
    \/ ResolveInput
    \/ ResolveOutput
    \/ PagCall
    \/ PagScan
    \/ PagReturn
    \/ PushRecord
    \/ RenderFile
    \/ RenderThrows

Spec == Init /\ [][Next]_vars

TypeOK ==
    /\ pc \in {"start", "resolveInput", "resolveOutput", "classify", "stackFault",
               "render", "done", "failed"}
    /\ Len(service) <= 1
    /\ Len(rpcs) = Len(pagReturns)
    /\ Len(viewData) <= 1

-----------------------------------------------------------------------------
(* Properties *)

Finished == pc \in {"render", "done", "failed"}

MethodAt(i) == TheService.methods[i]

VerbSet == {<<"C","r","e","a","t","e">>, <<"U","p","d","a","t","e">>,
            <<"D","e","l","e","t","e">>, <<"R","e","m","o","v","e">>,
            <<"P","a","t","c","h">>, <<"P","o","s","t">>, <<"S","e","t">>,
            <<"A","d","d">>}

KeywordSet == {<<"p","a","g","e">>, <<"o","f","f","s","e","t">>,
               <<"c","u","r","s","o","r">>, <<"l","i","m","i","t">>,
               <<"p","a","g","e","s","i","z","e">>,
               <<"p","a","g","e","n","u","m","b","e","r">>}

HasVerbPrefix(name) == \E v \in VerbSet : StartsWith(name, v)

\* the messages reachable from t through message-typed fields, t included
RECURSIVE ReachFrom(_)
ReachFrom(S) ==
    LET more == S \cup {f.message : f \in {g \in UNION {Range(msgFields[t]) : t \in S} :
                                                g.fieldKind = "message"}}
    IN IF more = S THEN S ELSE ReachFrom(more)

HasKeywordField(t) ==
    \E k \in 1..Len(msgFields[t]) : ToLowerCase(msgFields[t][k].name) \in KeywordSet

KeywordReachable(t) == \E u \in ReachFrom({t}) : HasKeywordField(u)

\* C1: in every record, isQuery holds exactly when the method is unary and its
\* name starts with no mutating verb, and isPaginated holds exactly when isQuery
\* holds and the classifier returned true on the method's input message.
C1_QueryAndPaginatedFlags ==
    \A i \in 1..Len(rpcs) :
        /\ rpcs[i].isQuery <=> (MethodAt(i).methodKind = 1 /\ ~HasVerbPrefix(MethodAt(i).name))
        /\ rpcs[i].isPaginated <=> (rpcs[i].isQuery /\ pagReturns[i])

\* a streaming method whose input message is classified as paginated
C1_Witness ==
    \E i \in 1..Len(rpcs) :
        /\ MethodAt(i).methodKind # 1
        /\ pagReturns[i]
        /\ ~rpcs[i].isQuery
        /\ ~rpcs[i].isPaginated

\* C2 as stated: for a method name that starts with a mutating verb, the
\* resource is the name with every occurrence of that verb removed.
C2_EveryOccurrenceRemoved ==
    \A i \in 1..Len(rpcs) : \A v \in VerbSet :
        StartsWith(MethodAt(i).name, v)
            => rpcs[i].resource = ReplaceAllOccurrences(MethodAt(i).name, v)

\* C2 amended: for a method name that starts with a mutating verb, the resource
\* is the name without that leading verb; later occurrences of the verb stay.
C2_LeadingVerbRemoved ==
    \A i \in 1..Len(rpcs) : \A v \in VerbSet :
        StartsWith(MethodAt(i).name, v)
            => rpcs[i].resource = SubSeq(MethodAt(i).name, Len(v) + 1, Len(MethodAt(i).name))

\* a record whose resource still contains the verb its method name started with
C2_Witness ==
    \E i \in 1..Len(rpcs) : \E v \in VerbSet :
        /\ StartsWith(MethodAt(i).name, v)
        /\ IndexOf(rpcs[i].resource, v) # 0

\* a variant of the classification: the unvisited messages weigh more than any
\* frame, a frame weighs its fields still to inspect, a pending call or return
\* is part of the step in progress
LongestMessage ==
    CHOOSE n \in {Len(msgFields[t]) : t \in TypeNames} :
        \A t \in TypeNames : Len(msgFields[t]) <= n

RECURSIVE FramesLeft(_)
FramesLeft(stk) ==
    IF stk = <<>> THEN 0
    ELSE 4 * (Len(msgFields[Head(stk).message]) + 2 - Head(stk).idx) + FramesLeft(Tail(stk))

WorkLeft(v, stk, call, r) ==
    (4 * (LongestMessage + 1) + 2) * Cardinality(TypeNames \ v)
        + FramesLeft(stk)
        + (IF call # <<>> THEN 2 ELSE 3)
        - (IF r # <<>> THEN 2 ELSE 0)

\* C3: every top-level classification terminates: each of its steps lowers a
\* natural-valued variant and the call depth never reaches a stack fault; and
\* it returns false when no message reachable from the entry message has a
\* field named by a pagination keyword.
C3_TerminatesAndFalse ==
    /\ [][(pc = "classify" /\ pc' = "classify")
            => /\ WorkLeft(visited', stack', pcall', ret') < WorkLeft(visited, stack, pcall, ret)
               /\ WorkLeft(visited', stack', pcall', ret') >= 0]_vars
    /\ [](pc # "stackFault")
    /\ [](Len(stack) <= Cardinality(visited))
    /\ [](\A i \in 1..Len(pagReturns) :
            ~KeywordReachable(MethodAt(i).input) => ~pagReturns[i])

\* a classification that returned false on a message lying on a reference cycle
C3_Witness ==
    \E i \in 1..Len(pagReturns) :
        /\ ~pagReturns[i]
        /\ \E f \in Range(msgFields[MethodAt(i).input]) :
              /\ f.fieldKind = "message"
              /\ MethodAt(i).input \in ReachFrom({f.message})

\* C9: a top-level classification returns true exactly when the entry message
\* or a message reachable from it has a field named by a pagination keyword.
C9_ExactReachability ==
    \A i \in 1..Len(pagReturns) :
        pagReturns[i] <=> KeywordReachable(MethodAt(i).input)

\* true was returned although the entry message's first field leads to a
\* message that refers back to the entry message, whose keyword field comes later
C9_Witness ==
    \E i \in 1..Len(pagReturns) :
        LET m == MethodAt(i).input
            fs == msgFields[m]
        IN /\ pagReturns[i]
           /\ Len(fs) >= 2
           /\ fs[1].fieldKind = "message"
           /\ fs[1].message # m
           /\ ~IsPagingKey(fs[1].name)
           /\ \A u \in ReachFrom({fs[1].message}) \ {m} : ~HasKeywordField(u)
           /\ \E g \in Range(msgFields[fs[1].message]) :
                 g.fieldKind = "message" /\ g.message = m
           /\ HasKeywordField(m)

\* C10: the isPaginated value of every record is determined by the method's own
\* kind, name and input message graph, whatever was classified before it.
C10_FreshPerMethod ==
    \A i \in 1..Len(rpcs) :
        rpcs[i].isPaginated <=>
            /\ MethodAt(i).methodKind = 1
            /\ ~HasVerbPrefix(MethodAt(i).name)
            /\ KeywordReachable(MethodAt(i).input)

\* two paginated records of the same input message
C10_Witness ==
    \E i, j \in 1..Len(rpcs) :
        /\ i < j
        /\ MethodAt(i).input = MethodAt(j).input
        /\ rpcs[i].isPaginated
        /\ rpcs[j].isPaginated

Buckets == <<wktImports, localImports, externalImports>>

\* the types resolved by processType before the call that is about to be made
ResolvedBefore ==
    UNION {{MethodAt(j).input, MethodAt(j).output} : j \in 1..Len(rpcs)}
        \cup (IF pc = "resolveOutput" THEN {TheMethod.input} ELSE {})

\* the name an earlier call returned for type t
NameReturnedFor(t) ==
    IF pc = "resolveOutput" /\ TheMethod.input = t THEN inType
    ELSE LET j == CHOOSE k \in 1..Len(rpcs) : t \in {MethodAt(k).input, MethodAt(k).output}
         IN IF MethodAt(j).input = t THEN rpcs[j].inputType ELSE rpcs[j].outputType

\* C4: a call of processType for a type already resolved for this service
\* returns the name it returned before and leaves the three import buckets
\* unchanged, and no bucket ever holds an entry twice.
C4_ResolveIdempotent ==
    /\ [][/\ ((pc = "resolveInput" /\ TheMethod.input \in ResolvedBefore)
                => (Buckets' = Buckets /\ inType' = NameReturnedFor(TheMethod.input)))
           /\ ((pc = "resolveOutput" /\ TheMethod.output \in ResolvedBefore)
                => (Buckets' = Buckets /\ outType' = NameReturnedFor(TheMethod.output)))]_vars
    /\ [](/\ NoDup(wktImports)
          /\ NoDup(localImports)
          /\ NoDup([k \in 1..Len(externalImports) |-> externalImports[k].path])
          /\ \A k \in 1..Len(externalImports) : NoDup(externalImports[k].types))

\* a local type and an imported type have each been resolved twice and are
\* held once
C4_Witness ==
    /\ \E i, j \in 1..Len(rpcs) :
          /\ i < j
          /\ MethodAt(i).input = MethodAt(j).input
          /\ MethodAt(i).output = MethodAt(j).output
          /\ MethodAt(i).input \notin KNOWN_TYPE_NAMES
          /\ MethodAt(i).output \notin KNOWN_TYPE_NAMES
          /\ Desc(MethodAt(i).input).file = TheService.file
          /\ Desc(MethodAt(i).output).file # TheService.file
    /\ Len(localImports) = 1
    /\ Len(externalImports) = 1
    /\ Len(externalImports[1].types) = 1

RefersTo(t) == \E i \in 1..Len(rpcs) : t \in {MethodAt(i).input, MethodAt(i).output}

\* C5 as stated: once a service whose methods reference google.protobuf.Empty
\* has been processed, that reference is resolved to the name Empty, and the
\* name Empty is in the well-known imports and in no local or path-keyed set.
C5_EmptyOnlyWellKnown ==
    (Finished /\ RefersTo("google.protobuf.Empty"))
        => /\ \A i \in 1..Len(rpcs) :
                /\ (MethodAt(i).input = "google.protobuf.Empty" => rpcs[i].inputType = "Empty")
                /\ (MethodAt(i).output = "google.protobuf.Empty" => rpcs[i].outputType = "Empty")
           /\ "Empty" \in Range(wktImports)
           /\ "Empty" \notin Range(localImports)
           /\ \A k \in 1..Len(externalImports) : "Empty" \notin Range(externalImports[k].types)

\* the referenced messages named Empty other than google.protobuf.Empty
NamesakesOfEmpty ==
    {t \in TypeNames : /\ RefersTo(t)
                       /\ t # "google.protobuf.Empty"
                       /\ Desc(t).name = "Empty"}

\* C5 amended: a reference to google.protobuf.Empty resolves to the name Empty,
\* puts it into the well-known imports and changes no local or path-keyed set;
\* once the service has been processed, the name Empty is in the local set
\* (in a path-keyed set) only when the service's methods also reference another
\* message with the short name Empty, defined in the service's file (in
\* another file).
C5_EmptyWellKnownUnlessNamesake ==
    /\ []((Finished /\ RefersTo("google.protobuf.Empty"))
            => /\ \A i \in 1..Len(rpcs) :
                    /\ (MethodAt(i).input = "google.protobuf.Empty"
                           => rpcs[i].inputType = "Empty")
                    /\ (MethodAt(i).output = "google.protobuf.Empty"
                           => rpcs[i].outputType = "Empty")
               /\ "Empty" \in Range(wktImports)
               /\ ("Empty" \in Range(localImports)
                     => \E t \in NamesakesOfEmpty : Desc(t).file = TheService.file)
               /\ \A k \in 1..Len(externalImports) :
                     "Empty" \in Range(externalImports[k].types)
                        => \E t \in NamesakesOfEmpty : Desc(t).file # TheService.file)
    /\ [][/\ ((pc = "resolveInput" /\ TheMethod.input = "google.protobuf.Empty")
                => (localImports' = localImports /\ externalImports' = externalImports))
           /\ ((pc = "resolveOutput" /\ TheMethod.output = "google.protobuf.Empty")
                => (localImports' = localImports /\ externalImports' = externalImports))]_vars

\* a processed service that references google.protobuf.Empty and a local
\* message named Empty: the name is in the well-known and in the local imports
C5_Witness ==
    /\ Finished
    /\ RefersTo("google.protobuf.Empty")
    /\ "Empty" \in Range(wktImports)
    /\ "Empty" \in Range(localImports)

\* the first service in file order, then declaration order
FirstInOrder(svc) ==
    \E i \in 1..Len(files) :
        /\ files[i].services # <<>>
        /\ \A j \in 1..(i - 1) : files[j].services = <<>>
        /\ svc = files[i].services[1]

NoServiceAtAll == \A i \in 1..Len(files) : files[i].services = <<>>

\* C6: the processed service is the first one in file order then declaration
\* order and every record is derived from a method of that service; an input
\* without any service ends successfully with no output unit.
C6_OnlyFirstService ==
    /\ (service # <<>> => FirstInOrder(service[1]))
    /\ \A i \in 1..Len(rpcs) :
          \E svc \in {files[f].services[k] :
                          f \in {g \in 1..Len(files) : files[g].services # <<>>}, k \in {1}} :
              /\ FirstInOrder(svc)
              /\ i <= Len(svc.methods)
              /\ rpcs[i].hookName = <<"u","s","e">> \o svc.methods[i].name
    /\ ((NoServiceAtAll /\ pc # "start")
          => (pc = "done" /\ rpcs = <<>> /\ generated = <<>> /\ emitted = <<>>))

\* finished on two files that declare different services: only the first
\* service's methods have records
C6_Witness ==
    /\ pc = "done"
    /\ Len(files) = 2
    /\ files[1].services # <<>>
    /\ files[2].services # <<>>
    /\ files[1].services[1].name # files[2].services[1].name
    /\ Len(rpcs) = Len(files[1].services[1].methods)
    /\ rpcs # <<>>

\* C7 as stated: a successful invocation on an input with a service has
\* emitted four output units, and a failed one has emitted none.
C7_FourOutputsOrNone ==
    /\ ((pc = "done" /\ service # <<>>) => Len(emitted) >= 4)
    /\ (pc = "failed" => emitted = <<>>)

\* C7 amended: a successful invocation on an input with a service has emitted
\* exactly the three output units client.ts, api.ts and index.ts, in that
\* order; a failed invocation, and one still running, has emitted none.
C7_ThreeOutputsOrNone ==
    /\ ((pc = "done" /\ service # <<>>) => emitted = <<"client.ts", "api.ts", "index.ts">>)
    /\ (pc # "done" => emitted = <<>>)

\* a successful invocation with its output units
C7_Witness ==
    /\ pc = "done"
    /\ service # <<>>
    /\ Len(emitted) = 3

\* C8: rpcs has one record per method of the processed service, in declaration
\* order: functionName is the method name with its first character lower-cased,
\* hookName is "use" followed by the name; streaming methods have a record too.
C8_OneRecordPerMethodInOrder ==
    /\ ((Finished /\ service # <<>>)
          => (viewData # <<>> /\ viewData[1].rpcs = rpcs /\ Len(rpcs) = Len(TheService.methods)))
    /\ (service # <<>> => Len(rpcs) <= Len(TheService.methods))
    /\ \A i \in 1..Len(rpcs) :
          LET n == MethodAt(i).name
              f == rpcs[i].functionName
          IN /\ Len(f) = Len(n)
             /\ f[1] = LowerChar(n[1])
             /\ \A k \in 2..Len(n) : f[k] = n[k]
             /\ rpcs[i].hookName = <<"u","s","e">> \o n

\* a finished service of two differently named methods, one of them streaming
C8_Witness ==
    /\ Finished
    /\ Len(rpcs) = 2
    /\ MethodAt(1).name # MethodAt(2).name
    /\ MethodAt(2).methodKind # 1
    /\ rpcs[1].functionName # MethodAt(1).name
    /\ rpcs[1].functionName # ToLowerCase(MethodAt(1).name)

====
